---- MODULE Spec2Model ----
(***************************************************************************)
(* A model of steam_download_monitor.py: the five-minute sampling loop of  *)
(* main(), the active-download picker, the log signal extractor and the    *)
(* pause/speed classifier.                                                 *)
(*                                                                         *)
(* Text is modelled character by character: a line is a sequence of        *)
(* one-character strings and a log tail is the sequence of its lines in    *)
(* file order (what str.splitlines() returns).  Rates are exact rationals  *)
(* of the form m * 2^e2 * 3^e3 * 5^e5 (every divisor in the program, 8, 60 *)
(* and 1024*1024, is 2-3-5-smooth), so that giga-unit rates do not leave   *)
(* the range of the model checker's integers.  Python computes with IEEE   *)
(* doubles; rounding of the double arithmetic is not modelled.             *)
(***************************************************************************)
EXTENDS Integers, Sequences, FiniteSets, TLC

VARIABLES
    pc,               \* position of main(): "start", "locate", "loop", "sleep", "sleep_none", "report", "done", "exit"; "parse"/"parsed" in SpecParse
    platform_system,  \* what platform.system() returns
    steam_found,      \* whether get_steam_path_windows() finds an install root
    exit_code,        \* status passed to sys.exit, None while running
    minute,           \* loop variable of `for minute in range(1, 6)`
    fs,               \* the downloading/<name> entries of the libraries
    prev_sizes,       \* main's dict appid -> last measured size
    active,           \* result of pick_active_download in the current window
    prev,             \* main's local `prev`
    win_start,        \* size of dl_dir when the current window began (history)
    cur,              \* main's local `cur`
    sample,           \* << >>, or the one record of what this iteration computed and printed
    output,           \* the label k of each report line "[k/5] ..." printed so far
    sleeps,           \* number of completed time.sleep(60) calls
    p_in,             \* SpecParse: the pieces the input line was built from
    p_line,           \* SpecParse: the input line
    p_result          \* SpecParse: what parse_speed_from_line returned

vars == <<pc, platform_system, steam_found, exit_code, minute, fs, prev_sizes,
          active, prev, win_start, cur, sample, output, sleeps,
          p_in, p_line, p_result>>

\* Python's None where a number is expected
None == 0 - 1

\* F(e) with e evaluated once: a local variable of the program, assigned
\* once and read several times
Let(e, F(_)) == CHOOSE r \in {F(v) : v \in {e}} : TRUE

-----------------------------------------------------------------------------
(* Characters and strings                                                  *)

LowerLetters == <<"a","b","c","d","e","f","g","h","i","j","k","l","m","n","o","p","q","r","s","t","u","v","w","x","y","z">>

UpperLetters == <<"A","B","C","D","E","F","G","H","I","J","K","L","M","N","O","P","Q","R","S","T","U","V","W","X","Y","Z">>

Digits == <<"0","1","2","3","4","5","6","7","8","9">>

\* str.lower() on one character
LowerChar(c) ==
    IF \E i \in 1..26 : UpperLetters[i] = c
    THEN LowerLetters[CHOOSE i \in 1..26 : UpperLetters[i] = c]
    ELSE c

\* str.upper() on one character
UpperChar(c) ==
    IF \E i \in 1..26 : LowerLetters[i] = c
    THEN UpperLetters[CHOOSE i \in 1..26 : LowerLetters[i] = c]
    ELSE c

\* str.lower()
Lower(s) == [i \in 1..Len(s) |-> LowerChar(s[i])]

\* str.upper()
Upper(s) == [i \in 1..Len(s) |-> UpperChar(s[i])]

\* whether sub occurs in s starting at position i (1-based)
OccursAt(sub, s, i) ==
    /\ i >= 1
    /\ i + Len(sub) - 1 <= Len(s)
    /\ \A j \in 1..Len(sub) : s[i + j - 1] = sub[j]

\* Python's `sub in s`
Contains(sub, s) == \E i \in 1..(Len(s) + 1) : OccursAt(sub, s, i)

\* str.startswith
StartsWith(s, p) == OccursAt(p, s, 1)

\* str.endswith
EndsWith(s, p) == Len(p) <= Len(s) /\ OccursAt(p, s, Len(s) - Len(p) + 1)

\* any(marker in low for marker in markers)
AnyMarkerIn(markers, low) == \E k \in 1..Len(markers) : Contains(markers[k], low)

IsDigitChar(c) == \E i \in 1..10 : Digits[i] = c

DigitValue(c) == (CHOOSE i \in 1..10 : Digits[i] = c) - 1

\* str.isdigit(): non-empty and all digits
IsDigitStr(s) == Len(s) > 0 /\ \A i \in 1..Len(s) : IsDigitChar(s[i])

\* end (exclusive) of the maximal run of characters satisfying Test from i on
RECURSIVE DigitRunEnd(_, _)
DigitRunEnd(s, i) ==
    IF i <= Len(s) /\ IsDigitChar(s[i]) THEN DigitRunEnd(s, i + 1) ELSE i

RECURSIVE SpaceRunEnd(_, _)
SpaceRunEnd(s, i) ==
    IF i <= Len(s) /\ s[i] = " " THEN SpaceRunEnd(s, i + 1) ELSE i

\* the number a digit string denotes
RECURSIVE DigitsToInt(_)
DigitsToInt(s) ==
    IF Len(s) = 0 THEN 0
    ELSE 10 * DigitsToInt(SubSeq(s, 1, Len(s) - 1)) + DigitValue(s[Len(s)])

-----------------------------------------------------------------------------
(* Exact numbers m * 2^e2 * 3^e3 * 5^e5, m >= 0 coprime to 30 (or zero)    *)

NumZero == [m |-> 0, e2 |-> 0, e3 |-> 0, e5 |-> 0]

\* Python's None where a rate is expected
NoneNum == [m |-> None, e2 |-> 0, e3 |-> 0, e5 |-> 0]

RECURSIVE NumNorm(_, _, _, _)
NumNorm(m, e2, e3, e5) ==
    IF m = 0 THEN NumZero
    ELSE IF m % 2 = 0 THEN NumNorm(m \div 2, e2 + 1, e3, e5)
    ELSE IF m % 3 = 0 THEN NumNorm(m \div 3, e2, e3 + 1, e5)
    ELSE IF m % 5 = 0 THEN NumNorm(m \div 5, e2, e3, e5 + 1)
    ELSE [m |-> m, e2 |-> e2, e3 |-> e3, e5 |-> e5]

NumOfInt(n) == NumNorm(n, 0, 0, 0)

NumMul(a, b) ==
    IF a.m = 0 \/ b.m = 0 THEN NumZero
    ELSE [m |-> a.m * b.m, e2 |-> a.e2 + b.e2, e3 |-> a.e3 + b.e3, e5 |-> a.e5 + b.e5]

\* a / b for a divisor b that is a product of powers of 2, 3 and 5
NumDiv(a, b) ==
    IF a.m = 0 THEN NumZero
    ELSE [m |-> a.m, e2 |-> a.e2 - b.e2, e3 |-> a.e3 - b.e3, e5 |-> a.e5 - b.e5]

RECURSIVE NumPow(_, _)
NumPow(a, n) == IF n = 0 THEN NumOfInt(1) ELSE NumMul(a, NumPow(a, n - 1))

RECURSIVE IntPow(_, _)
IntPow(b, n) == IF n <= 0 THEN 1 ELSE b * IntPow(b, n - 1)

\* a > b, by cross-multiplying the prime powers
NumGT(a, b) ==
    LET d2 == a.e2 - b.e2
        d3 == a.e3 - b.e3
        d5 == a.e5 - b.e5
        lhs == a.m * IntPow(2, d2) * IntPow(3, d3) * IntPow(5, d5)
        rhs == b.m * IntPow(2, -d2) * IntPow(3, -d3) * IntPow(5, -d5)
    IN  lhs > rhs

-----------------------------------------------------------------------------
(* parse_speed_from_line                                                   *)

NoMatch == [ok |-> FALSE, value |-> <<>>, unit |-> <<>>]

\* The three regular expressions, tried in this order.  Each is
\*   (?P<value>\d+(?:[.,]\d+)?)\s*(?P<unit>u1|u2|...)<suffix>
\* matched with re.IGNORECASE.
patterns ==
    << [units |-> << <<"k","b","i","t">>, <<"m","b","i","t">>, <<"g","b","i","t">> >>,
        suffix |-> <<"/","s">>],
       [units |-> << <<"k","b">>, <<"m","b">>, <<"g","b">>, <<"k","i","b">>, <<"m","i","b">>, <<"g","i","b">> >>,
        suffix |-> <<"/","s">>],
       [units |-> << <<"k","b","p","s">>, <<"m","b","p","s">>, <<"g","b","p","s">> >>,
        suffix |-> <<>>] >>

\* The match of one pattern anchored at position i of the lower-cased line.
\* \d+ and \s* can only end at the end of their maximal run (what follows a
\* shorter run is a digit or a blank, which starts neither the optional
\* group, nor \s*'s successor, a unit), and the optional group cannot be
\* skipped when it matches (a unit does not start with "." or ",").  The
\* alternation takes the first alternative after which the suffix follows.
RegexMatchAt(low, i, pat) ==
    Let(DigitRunEnd(low, i), LAMBDA d1 :
    Let(IF d1 <= Len(low) /\ low[d1] \in {".", ","}
        THEN DigitRunEnd(low, d1 + 1) ELSE d1, LAMBDA fracEnd :
    Let(IF fracEnd > d1 + 1 THEN fracEnd ELSE d1, LAMBDA vEnd :
    Let(SpaceRunEnd(low, vEnd), LAMBDA u :
    Let({k \in 1..Len(pat.units) : OccursAt(pat.units[k] \o pat.suffix, low, u)}, LAMBDA alts :
        IF d1 = i \/ alts = {} THEN NoMatch
        ELSE [ok |-> TRUE,
              value |-> SubSeq(low, i, vEnd - 1),
              unit |-> pat.units[CHOOSE k \in alts : \A j \in alts : k <= j]])))))

\* re.search(pattern, line, flags=re.IGNORECASE): the leftmost match
RegexSearch(line, pat) ==
    Let(Lower(line), LAMBDA low :
    Let({i \in 1..Len(low) : RegexMatchAt(low, i, pat).ok}, LAMBDA starts :
        IF starts = {} THEN NoMatch
        ELSE Let(CHOOSE i \in starts : \A j \in starts : i <= j, LAMBDA first :
                 RegexMatchAt(low, first, pat))))

\* float(match.group("value").replace(",", "."))
FloatOfValue(v) ==
    Let(DigitRunEnd(v, 1), LAMBDA d1 :
    Let(SubSeq(v, 1, d1 - 1), LAMBDA intDigits :
    Let(SubSeq(v, d1 + 1, Len(v)), LAMBDA fracDigits :
    Let(NumOfInt(DigitsToInt(intDigits \o fracDigits)), LAMBDA digits :
    Let(NumPow(NumOfInt(10), Len(fracDigits)), LAMBDA scale :
        NumDiv(digits, scale))))))

decimal_base == NumOfInt(1000)

binary_base == NumOfInt(1024)

\* SpeedOfMatch with the decimal prefixes tested before the binary ones
SpeedOfMatch_DecimalFirst(m) ==
    Let(FloatOfValue(m.value), LAMBDA value :
    Let(m.unit, LAMBDA unit :
    Let(Contains(<<"b","i","t">>, unit) \/ EndsWith(unit, <<"b","p","s">>), LAMBDA is_bits :
    Let(IF StartsWith(unit, <<"g">>) THEN NumMul(value, NumPow(decimal_base, 3))
        ELSE IF StartsWith(unit, <<"m">>) THEN NumMul(value, NumPow(decimal_base, 2))
        ELSE IF StartsWith(unit, <<"k">>) THEN NumMul(value, decimal_base)
        ELSE IF StartsWith(unit, <<"g","i">>) THEN NumMul(value, NumPow(binary_base, 3))
        ELSE IF StartsWith(unit, <<"m","i">>) THEN NumMul(value, NumPow(binary_base, 2))
        ELSE IF StartsWith(unit, <<"k","i">>) THEN NumMul(value, binary_base)
        ELSE value, LAMBDA scaled :
        IF is_bits THEN NumDiv(scaled, NumOfInt(8)) ELSE scaled))))

\* The body of the `for pattern in patterns` loop once a pattern matched:
\* the unit's multiplier, then the division by 8 for bit units.
SpeedOfMatch(m) ==
    Let(FloatOfValue(m.value), LAMBDA value :
    Let(m.unit, LAMBDA unit :
    Let(Contains(<<"b","i","t">>, unit) \/ EndsWith(unit, <<"b","p","s">>), LAMBDA is_bits :
    Let(IF StartsWith(unit, <<"g","i">>) THEN NumMul(value, NumPow(binary_base, 3))
        ELSE IF StartsWith(unit, <<"m","i">>) THEN NumMul(value, NumPow(binary_base, 2))
        ELSE IF StartsWith(unit, <<"k","i">>) THEN NumMul(value, binary_base)
        ELSE IF StartsWith(unit, <<"g">>) THEN NumMul(value, NumPow(decimal_base, 3))
        ELSE IF StartsWith(unit, <<"m">>) THEN NumMul(value, NumPow(decimal_base, 2))
        ELSE IF StartsWith(unit, <<"k">>) THEN NumMul(value, decimal_base)
        ELSE value, LAMBDA scaled :
        IF is_bits THEN NumDiv(scaled, NumOfInt(8)) ELSE scaled))))

\* Returns bytes/sec, or None when no pattern matches.
parse_speed_from_line(line) ==
    Let([k \in 1..Len(patterns) |-> RegexSearch(line, patterns[k])], LAMBDA matches :
    Let({k \in 1..Len(patterns) : matches[k].ok}, LAMBDA hits :
        IF hits = {} THEN NoneNum
        ELSE Let(matches[CHOOSE k \in hits : \A j \in hits : k <= j], LAMBDA match :
                 SpeedOfMatch(match))))

-----------------------------------------------------------------------------
(* find_speed_in_text, find_pause_resume_indices, read_log_state           *)

\* enumerate(reversed(text.splitlines())): the line with recency index idx
LineAt(text, idx) == text[Len(text) - idx]

\* the loop of find_speed_in_text from recency index idx on
RECURSIVE FindSpeedFrom(_, _, _)
FindSpeedFrom(text, appid, idx) ==
    IF idx >= Len(text) THEN [speed |-> NoneNum, idx |-> None]
    ELSE Let(LineAt(text, idx), LAMBDA line :
         Let(Lower(line), LAMBDA low :
             IF ~Contains(appid, low) /\ ~Contains(<<"d","o","w","n","l","o","a","d">>, low)
             THEN FindSpeedFrom(text, appid, idx + 1)
             ELSE Let(parse_speed_from_line(line), LAMBDA speed :
                      IF speed # NoneNum
                      THEN [speed |-> speed, idx |-> idx]
                      ELSE FindSpeedFrom(text, appid, idx + 1))))

find_speed_in_text(text, appid) == FindSpeedFrom(text, appid, 0)

pause_markers == << <<"p","a","u","s","e">>, <<"p","a","u","s","e","d">>, <<"p","a","u","s","i","n","g">> >>

resume_markers == << <<"r","e","s","u","m","e">>, <<"r","e","s","u","m","e","d">>, <<"u","n","p","a","u","s","e">>, <<"u","n","p","a","u","s","e","d">> >>

context_markers == << <<"d","o","w","n","l","o","a","d">>, <<"c","o","n","t","e","n","t">>, <<"d","e","p","o","t">>, <<"a","p","p">> >>

\* the loop of find_pause_resume_indices from recency index idx on, with the
\* indices found so far
RECURSIVE FindPauseResumeFrom(_, _, _, _, _)
FindPauseResumeFrom(text, appid, idx, pause_idx, resume_idx) ==
    IF idx >= Len(text) THEN [pause_idx |-> pause_idx, resume_idx |-> resume_idx]
    ELSE Let(Lower(LineAt(text, idx)), LAMBDA low :
             IF ~Contains(appid, low) /\ ~AnyMarkerIn(context_markers, low)
             THEN FindPauseResumeFrom(text, appid, idx + 1, pause_idx, resume_idx)
             ELSE Let(IF resume_idx = None /\ AnyMarkerIn(resume_markers, low)
                      THEN idx ELSE resume_idx, LAMBDA r :
                  Let(IF pause_idx = None /\ AnyMarkerIn(pause_markers, low)
                      THEN idx ELSE pause_idx, LAMBDA p :
                      IF p # None /\ r # None
                      THEN [pause_idx |-> p, resume_idx |-> r]
                      ELSE FindPauseResumeFrom(text, appid, idx + 1, p, r))))

find_pause_resume_indices(text, appid) == FindPauseResumeFrom(text, appid, 0, None, None)

\* read_log_state on the two tails tail_text returned (the empty text for a
\* missing or unreadable file).  speed_src records which file the rate came
\* from; the program does not keep it.
read_log_state(content_text, connection_text, appid) ==
    Let(IF content_text # <<>> THEN find_speed_in_text(content_text, appid)
        ELSE [speed |-> NoneNum, idx |-> None], LAMBDA c :
    Let(c.speed = NoneNum /\ connection_text # <<>>, LAMBDA useConn :
    Let(IF useConn THEN find_speed_in_text(connection_text, appid) ELSE c, LAMBDA s :
    Let(IF content_text # <<>> THEN find_pause_resume_indices(content_text, appid)
        ELSE [pause_idx |-> None, resume_idx |-> None], LAMBDA pr :
        [speed |-> s.speed, speed_idx |-> s.idx,
         pause_idx |-> pr.pause_idx, resume_idx |-> pr.resume_idx,
         speed_src |-> IF s.speed = NoneNum THEN "None"
                       ELSE IF useConn THEN "connection_log" ELSE "content_log"]))))

-----------------------------------------------------------------------------
(* The file system the program reads                                       *)

PAUSE_EPS_BYTES_PER_MIN == 256 * 1024

\* LOG_SPEED_EPS_MB_S = 0.10
LOG_SPEED_EPS_MB_S == NumDiv(NumOfInt(1), NumOfInt(10))

LastMinute == 5

\* modification times a download directory can carry
MaxMtime == 2

\* sizes dir_size_bytes can measure for a download directory
DirSizes == {0, PAUSE_EPS_BYTES_PER_MIN - 1, PAUSE_EPS_BYTES_PER_MIN}

\* get_steam_libraries: the install root first, then the other libraries
libraries == << "C:/Steam", "D:/SteamLibrary", "E:/Old" >>

Absent == [present |-> FALSE, mtime |-> 0, size |-> 0]

\* The children of <lib>/steamapps/downloading in the order iterdir() yields
\* them.  A slot is a directory whose presence, mtime and size the
\* environment changes; the others are fixed: a directory whose name is not a
\* number and regular files whose names are numbers, all newer than any slot.
\* The third library has no downloading directory.
Layout(lib) ==
    IF lib = "C:/Steam"
    THEN << [name |-> <<"t","m","p">>, slot |-> 0, is_dir |-> TRUE],
            [name |-> <<"2","0">>, slot |-> 1, is_dir |-> TRUE],
            [name |-> <<"1","1">>, slot |-> 0, is_dir |-> FALSE] >>
    ELSE IF lib = "D:/SteamLibrary"
    THEN << [name |-> <<"3","0">>, slot |-> 0, is_dir |-> FALSE],
            [name |-> <<"1","0">>, slot |-> 2, is_dir |-> TRUE] >>
    ELSE << >>

Slots == {1, 2}

\* a slot's state: absent, or a directory with a modification time and the
\* total size of its files
SlotStates == {Absent} \cup [present : {TRUE}, mtime : 1..MaxMtime, size : DirSizes]

FsStates == [Slots -> SlotStates]

\* downloading.exists()
DownloadingExists(lib) == Layout(lib) # << >>

\* list(downloading.iterdir()) with what is_dir(), name and stat() give
RECURSIVE IterDirFrom(_, _, _)
IterDirFrom(f, lib, i) ==
    IF i > Len(Layout(lib)) THEN << >>
    ELSE Let(Layout(lib)[i], LAMBDA e :
         Let(IterDirFrom(f, lib, i + 1), LAMBDA rest :
             IF e.slot = 0
             THEN << [name |-> e.name, is_dir |-> e.is_dir, mtime |-> MaxMtime + 1, lib |-> lib] >> \o rest
             ELSE IF f[e.slot] = Absent THEN rest
             ELSE << [name |-> e.name, is_dir |-> e.is_dir, mtime |-> f[e.slot].mtime, lib |-> lib] >> \o rest))

iterdir(f, lib) == IterDirFrom(f, lib, 1)

\* dir_size_bytes(lib / "steamapps" / "downloading" / appid): 0 when the
\* directory does not exist, else the sum of its files' sizes
dir_size_bytes(f, lib, appid) ==
    Let({i \in 1..Len(Layout(lib)) :
            /\ Layout(lib)[i].name = appid
            /\ Layout(lib)[i].slot # 0
            /\ f[Layout(lib)[i].slot] # Absent}, LAMBDA hit :
        IF hit = {} THEN 0
        ELSE f[Layout(lib)[CHOOSE i \in hit : TRUE].slot].size)

-----------------------------------------------------------------------------
(* pick_active_download                                                    *)

\* the inner loop: the children of one library that are kept as candidates
RECURSIVE CandidatesOfChildren(_)
CandidatesOfChildren(children) ==
    IF children = << >> THEN << >>
    ELSE Let(Head(children), LAMBDA child :
         Let(CandidatesOfChildren(Tail(children)), LAMBDA rest :
             IF child.is_dir /\ IsDigitStr(child.name)
             THEN << [mtime |-> child.mtime, lib |-> child.lib, appid |-> child.name] >> \o rest
             ELSE rest))

\* the outer loop over the libraries from position i on
RECURSIVE CandidatesFrom(_, _, _)
CandidatesFrom(f, libs, i) ==
    IF i > Len(libs) THEN << >>
    ELSE IF ~DownloadingExists(libs[i]) THEN CandidatesFrom(f, libs, i + 1)
    ELSE Let(iterdir(f, libs[i]), LAMBDA children :
             CandidatesOfChildren(children) \o CandidatesFrom(f, libs, i + 1))

\* InsertByMtime with x put in front of its equals: the sort is not stable
RECURSIVE InsertByMtime_BeforeEquals(_, _)
InsertByMtime_BeforeEquals(x, sorted) ==
    IF sorted = << >> THEN << x >>
    ELSE IF Head(sorted).mtime > x.mtime
    THEN Let(Tail(sorted), LAMBDA rest :
             << Head(sorted) >> \o InsertByMtime_BeforeEquals(x, rest))
    ELSE << x >> \o sorted

\* x put into a list sorted by mtime, newest first, behind its equals
RECURSIVE InsertByMtime(_, _)
InsertByMtime(x, sorted) ==
    IF sorted = << >> THEN << x >>
    ELSE IF Head(sorted).mtime >= x.mtime
    THEN Let(Tail(sorted), LAMBDA rest :
             << Head(sorted) >> \o InsertByMtime(x, rest))
    ELSE << x >> \o sorted

\* candidates.sort(key=lambda x: x[0], reverse=True): a stable sort, equal
\* keys keep their order
RECURSIVE SortByMtimeDesc(_)
SortByMtimeDesc(cs) ==
    IF cs = << >> THEN << >>
    ELSE Let(SortByMtimeDesc(SubSeq(cs, 1, Len(cs) - 1)), LAMBDA sorted :
             InsertByMtime(cs[Len(cs)], sorted))

\* the None pick_active_download returns
NoActive == [lib |-> "None", appid |-> << >>]

pick_active_download(f, libs) ==
    Let(CandidatesFrom(f, libs, 1), LAMBDA candidates :
        IF candidates = << >> THEN NoActive
        ELSE Let(SortByMtimeDesc(candidates), LAMBDA sorted :
                 [lib |-> sorted[1].lib, appid |-> sorted[1].appid]))

-----------------------------------------------------------------------------
(* The log tails the program can find                                      *)

LinePaused == <<"A","p","p","I","D"," ","1","0"," ","p","a","u","s","e","d">>

LineResumed == <<"D","o","w","n","l","o","a","d"," ","r","e","s","u","m","e","d">>

LineUnpaused == <<"A","p","p"," ","1","0"," ","u","n","p","a","u","s","e","d">>

LineRate == <<"D","o","w","n","l","o","a","d","i","n","g"," ","1","2",".","5"," ","M","b","i","t","/","s">>

LineSlow == <<"d","o","w","n","l","o","a","d"," ","r","a","t","e"," ","0",".","1"," ","M","i","B","/","s">>

LineResumedRate == <<"d","o","w","n","l","o","a","d"," ","r","e","s","u","m","e","d"," ","a","t"," ","2"," ","M","B","/","s">>

LineNoContext == <<"u","s","e","r"," ","p","a","u","s","e","d">>

LineConnRate == <<"d","o","w","n","l","o","a","d"," ","2"," ","M","B","/","s">>

\* tail_text(content_log): file order, the newest line last; << >> is the
\* empty string tail_text returns for a missing or unreadable file
ContentTexts ==
    << << >>,
      << LineNoContext >>,
      << LinePaused >>,
      << LineResumed >>,
      << LineUnpaused >>,
      << LineRate >>,
      << LineSlow >>,
      << LineResumedRate >>,
      << LinePaused, LineResumed >>,
      << LineResumed, LinePaused >>,
      << LinePaused, LineUnpaused >>,
      << LineRate, LinePaused >>,
      << LinePaused, LineRate >>,
      << LineRate, LineResumed >>,
      << LineResumed, LineRate >>,
      << LineResumed, LineNoContext >> >>

\* tail_text(connection_log)
ConnectionTexts == << << >>, << LineConnRate >> >>

\* the identifiers Layout gives to download directories
AppIds == << <<"2","0">>, <<"1","0">> >>

\* read_log_state on every input of the model, computed once: entry
\* [c][n][a] is read_log_state on ContentTexts[c], ConnectionTexts[n] and
\* AppIds[a]
LogStateTable ==
    [c \in 1..Len(ContentTexts) |->
        [n \in 1..Len(ConnectionTexts) |->
            [a \in 1..Len(AppIds) |->
                read_log_state(ContentTexts[c], ConnectionTexts[n], AppIds[a])]]]

\* the entry of LogStateTable for two tails and an identifier
LogStateOf(content_text, connection_text, appid) ==
    LogStateTable[CHOOSE c \in 1..Len(ContentTexts) : ContentTexts[c] = content_text]
                 [CHOOSE n \in 1..Len(ConnectionTexts) : ConnectionTexts[n] = connection_text]
                 [CHOOSE a \in 1..Len(AppIds) : AppIds[a] = appid]

-----------------------------------------------------------------------------
(* The classifier of main(): lines 318-343                                 *)

Max(a, b) == IF a >= b THEN a ELSE b

\* PauseDecision with a pause line deciding whenever there is one
PauseDecision_PauseWins(pause_idx, resume_idx) ==
    IF pause_idx # None THEN "True"
    ELSE IF resume_idx # None THEN "False"
    ELSE "None"

\* pause_decision: "True", "False" or "None"
PauseDecision(pause_idx, resume_idx) ==
    IF pause_idx # None /\ (resume_idx = None \/ pause_idx < resume_idx) THEN "True"
    ELSE IF resume_idx # None /\ (pause_idx = None \/ resume_idx < pause_idx) THEN "False"
    ELSE "None"

\* SpeedIsRecent with <= in place of < in the two index comparisons
SpeedIsRecent_Le(bytes_per_s_log, speed_idx, pause_idx, resume_idx, pause_decision) ==
    /\ bytes_per_s_log # NoneNum
    /\ pause_decision # "True"
    /\ (pause_idx = None \/ (speed_idx # None /\ speed_idx <= pause_idx))
    /\ (resume_idx = None \/ (speed_idx # None /\ speed_idx <= resume_idx))
    /\ NumGT(NumDiv(bytes_per_s_log, NumOfInt(1024 * 1024)), LOG_SPEED_EPS_MB_S)

\* speed_is_recent
SpeedIsRecent(bytes_per_s_log, speed_idx, pause_idx, resume_idx, pause_decision) ==
    /\ bytes_per_s_log # NoneNum
    /\ pause_decision # "True"
    /\ (pause_idx = None \/ (speed_idx # None /\ speed_idx < pause_idx))
    /\ (resume_idx = None \/ (speed_idx # None /\ speed_idx < resume_idx))
    /\ NumGT(NumDiv(bytes_per_s_log, NumOfInt(1024 * 1024)), LOG_SPEED_EPS_MB_S)

\* Paused without the branch that forces paused on an explicit pause
Paused_NoOverride(pause_decision, paused_by_delta, speed_is_recent) ==
    paused_by_delta /\ ~speed_is_recent

\* paused, from the three-way branch on pause_decision
Paused(pause_decision, paused_by_delta, speed_is_recent) ==
    IF pause_decision = "True" THEN TRUE
    ELSE IF pause_decision = "False" THEN paused_by_delta /\ ~speed_is_recent
    ELSE paused_by_delta /\ ~speed_is_recent

\* PausedByDelta with <= in place of <
PausedByDelta_Le(delta) == delta <= PAUSE_EPS_BYTES_PER_MIN

\* paused_by_delta
PausedByDelta(delta) == delta < PAUSE_EPS_BYTES_PER_MIN

\* delta = max(0, cur - prev)
Delta(cur0, prev0) == Max(0, cur0 - prev0)

\* bytes_per_s_disk = delta / 60.0
BytesPerSDisk(delta) == NumDiv(NumOfInt(delta), NumOfInt(60))

\* Everything main computes after the sleep from cur, prev and the two log
\* tails.  cmp_pause and cmp_resume record whether the short-circuit
\* evaluation of speed_is_recent reached the comparison of speed_idx with
\* pause_idx and with resume_idx.
Classify(act, prev0, start0, cur0, content_text, connection_text) ==
    Let(Delta(cur0, prev0), LAMBDA delta :
    Let(BytesPerSDisk(delta), LAMBDA bytes_per_s_disk :
    Let(LogStateOf(content_text, connection_text, act.appid), LAMBDA ls :
    Let(PausedByDelta(delta), LAMBDA paused_by_delta :
    Let(PauseDecision(ls.pause_idx, ls.resume_idx), LAMBDA pause_decision :
    Let(SpeedIsRecent(ls.speed, ls.speed_idx, ls.pause_idx,
                      ls.resume_idx, pause_decision), LAMBDA speed_is_recent :
    Let(ls.speed # NoneNum /\ pause_decision # "True", LAMBDA reached :
    Let(Paused(pause_decision, paused_by_delta, speed_is_recent), LAMBDA paused :
        [lib |-> act.lib, appid |-> act.appid,
         prev |-> prev0, win_start |-> start0, cur |-> cur0, delta |-> delta,
         content_text |-> content_text, connection_text |-> connection_text,
         bytes_per_s_disk |-> bytes_per_s_disk,
         bytes_per_s_log |-> ls.speed, speed_idx |-> ls.speed_idx,
         pause_idx |-> ls.pause_idx, resume_idx |-> ls.resume_idx,
         speed_src |-> ls.speed_src,
         paused_by_delta |-> paused_by_delta,
         pause_decision |-> pause_decision,
         speed_is_recent |-> speed_is_recent,
         cmp_pause |-> reached /\ ls.pause_idx # None /\ ls.speed_idx # None,
         cmp_resume |-> /\ reached
                        /\ (ls.pause_idx = None \/ (ls.speed_idx # None /\ ls.speed_idx < ls.pause_idx))
                        /\ ls.resume_idx # None /\ ls.speed_idx # None,
         bytes_per_s |-> IF speed_is_recent THEN ls.speed ELSE bytes_per_s_disk,
         paused |-> paused,
         status |-> IF paused THEN "PAUSED/IDLE" ELSE "DOWNLOADING"]))))))))

-----------------------------------------------------------------------------
(* main()                                                                  *)

ParseIdle == /\ p_in = << >> /\ p_line = << >> /\ p_result = NoneNum

Init ==
    /\ pc = "start"
    /\ platform_system \in { <<"W","i","n","d","o","w","s">>, <<"L","i","n","u","x">> }
    /\ steam_found \in BOOLEAN
    /\ exit_code = None
    /\ minute = 0
    /\ fs \in FsStates
    /\ prev_sizes = [a \in {} |-> 0]
    /\ active = NoActive
    /\ prev = None
    /\ win_start = None
    /\ cur = None
    /\ sample = << >>
    /\ output = << >>
    /\ sleeps = 0
    /\ ParseIdle

\* lines 283-285: the platform check
CheckPlatform ==
    /\ pc = "start"
    /\ IF Lower(platform_system) # <<"w","i","n","d","o","w","s">>
       THEN /\ pc' = "exit"
            /\ exit_code' = 1
       ELSE /\ pc' = "locate"
            /\ UNCHANGED exit_code
    /\ UNCHANGED <<platform_system, steam_found, minute, fs, prev_sizes, active,
                   prev, win_start, cur, sample, output, sleeps, p_in, p_line, p_result>>

\* lines 287-299: the install root, the libraries, the header, prev_sizes = {}
LocateSteam ==
    /\ pc = "locate"
    /\ IF ~steam_found
       THEN /\ pc' = "exit"
            /\ exit_code' = 1
            /\ UNCHANGED <<minute, prev_sizes>>
       ELSE /\ pc' = "loop"
            /\ minute' = 1
            /\ prev_sizes' = [a \in {} |-> 0]
            /\ UNCHANGED exit_code
    /\ UNCHANGED <<platform_system, steam_found, fs, active,
                   prev, win_start, cur, sample, output, sleeps, p_in, p_line, p_result>>

\* prev_sizes.get(appid, default)
DictGet(d, k, default) == IF k \in DOMAIN d THEN d[k] ELSE default

\* d[k] = v
DictSet(d, k, v) == [x \in DOMAIN d \cup {k} |-> IF x = k THEN v ELSE d[x]]

\* lines 302-312: the head of an iteration, up to the sleep
PickActive ==
    /\ pc = "loop"
    /\ active' = pick_active_download(fs, libraries)
    /\ sample' = << >>
    /\ cur' = None
    /\ IF active' = NoActive
       THEN /\ output' = Append(output, minute)
            /\ pc' = "sleep_none"
            /\ prev' = None
            /\ win_start' = None
       ELSE /\ prev' = DictGet(prev_sizes, active'.appid,
                               dir_size_bytes(fs, active'.lib, active'.appid))
            /\ win_start' = dir_size_bytes(fs, active'.lib, active'.appid)
            /\ pc' = "sleep"
            /\ UNCHANGED output
    /\ UNCHANGED <<platform_system, steam_found, exit_code, minute, fs, prev_sizes,
                   sleeps, p_in, p_line, p_result>>

\* NextMinute with the loop one iteration short
NextMinute_OneShort(m) == IF m >= LastMinute - 1 THEN "done" ELSE "loop"

\* the end of an iteration: the next minute, or the end of the loop and the
\* closing line
NextMinute(m) == IF m = LastMinute THEN "done" ELSE "loop"

\* lines 305-306: time.sleep(60) and `continue` when nothing is active; the
\* file system changes while the program sleeps
SleepNoActive ==
    /\ pc = "sleep_none"
    /\ \E f \in FsStates : fs' = f
    /\ sleeps' = sleeps + 1
    /\ pc' = NextMinute(minute)
    /\ minute' = minute + 1
    /\ UNCHANGED <<platform_system, steam_found, exit_code, prev_sizes, active,
                   prev, win_start, cur, sample, output, p_in, p_line, p_result>>

\* lines 313-316: time.sleep(60), then cur, and prev_sizes[appid] = cur
SleepAndMeasure ==
    /\ pc = "sleep"
    /\ \E f \in FsStates : fs' = f
    /\ sleeps' = sleeps + 1
    /\ cur' = dir_size_bytes(fs', active.lib, active.appid)
    /\ prev_sizes' = DictSet(prev_sizes, active.appid, cur')
    /\ pc' = "report"
    /\ UNCHANGED <<platform_system, steam_found, exit_code, minute, active,
                   prev, win_start, sample, output, p_in, p_line, p_result>>

\* lines 315-347: delta, the log state read from the two log files as they
\* are at that moment, the verdict and the report line
Report ==
    /\ pc = "report"
    /\ \E c \in 1..Len(ContentTexts), n \in 1..Len(ConnectionTexts) :
          sample' = << Classify(active, prev, win_start, cur, ContentTexts[c], ConnectionTexts[n]) >>
    /\ output' = Append(output, minute)
    /\ pc' = NextMinute(minute)
    /\ minute' = minute + 1
    /\ UNCHANGED <<platform_system, steam_found, exit_code, fs, prev_sizes, active,
                   prev, win_start, cur, sleeps, p_in, p_line, p_result>>

Next ==
    \/ CheckPlatform
    \/ LocateSteam
    \/ PickActive
    \/ SleepNoActive
    \/ SleepAndMeasure
    \/ Report

Spec == Init /\ [][Next]_vars

-----------------------------------------------------------------------------
(* Properties of the sampling loop                                         *)

HasSample == sample # << >>

S == sample[1]

\* the log's most recent pause line is more recent than its most recent
\* resume line
PauseMoreRecent == S.pause_idx # None /\ (S.resume_idx = None \/ S.pause_idx < S.resume_idx)

\* the log's most recent resume line is more recent than its most recent
\* pause line
ResumeMoreRecent == S.resume_idx # None /\ (S.pause_idx = None \/ S.resume_idx < S.pause_idx)

\* 0.10 MB/s in bytes per second
TenthOfMB == NumDiv(NumOfInt(1048576), NumOfInt(10))

\* the log rate, in MB/s, exceeds 0.10
LogRateAboveEps == NumGT(S.bytes_per_s_log, TenthOfMB)

\* C1: a sample whose log has its most recent pause line more recent than
\* its most recent resume line (or no resume line) is reported PAUSED/IDLE,
\* whatever the disk delta and the log rate.
C1_PauseForcesPaused ==
    (HasSample /\ PauseMoreRecent) => (S.paused /\ S.status = "PAUSED/IDLE")

\* a sample with an explicit pause, a disk delta at the threshold and a log
\* rate above 0.10 MB/s
C1_Witness ==
    /\ HasSample
    /\ PauseMoreRecent
    /\ S.delta >= 262144
    /\ S.bytes_per_s_log # NoneNum
    /\ LogRateAboveEps
    /\ S.status = "PAUSED/IDLE"

\* C2 as stated: a sample whose log has its most recent resume line more
\* recent than its most recent pause line is reported DOWNLOADING.
C2_ResumeMeansDownloading ==
    (HasSample /\ ResumeMoreRecent) => S.status = "DOWNLOADING"

\* C2 amended: with the resume line more recent the provisional decision is
\* "not paused", and the sample is reported PAUSED/IDLE exactly when the disk
\* delta is below 262144 bytes and the log rate is not judged recent;
\* otherwise it is reported DOWNLOADING.
C2_ResumeFallsBackToDelta ==
    (HasSample /\ ResumeMoreRecent) =>
        /\ S.pause_decision = "False"
        /\ S.paused <=> (S.delta < 262144 /\ ~S.speed_is_recent)
        /\ S.status = IF S.delta < 262144 /\ ~S.speed_is_recent
                      THEN "PAUSED/IDLE" ELSE "DOWNLOADING"

\* a sample with the resume line more recent that is reported PAUSED/IDLE,
\* and one that is reported DOWNLOADING, are both possible; this is the
\* first
C2_Witness ==
    /\ HasSample
    /\ ResumeMoreRecent
    /\ S.delta < 262144
    /\ S.status = "PAUSED/IDLE"

\* the recency rule of C3 as stated: not later than (<=) each index present
C3_RateTrustedLe ==
    /\ S.bytes_per_s_log # NoneNum
    /\ LogRateAboveEps
    /\ (S.pause_idx = None \/ S.speed_idx <= S.pause_idx)
    /\ (S.resume_idx = None \/ S.speed_idx <= S.resume_idx)

\* C3 as stated: the display speed is the log rate exactly when the rate
\* exists, exceeds 0.10 MB/s and its index is <= each of the pause and resume
\* indices that is present; otherwise it is the disk rate delta / 60.
C3_DisplaySpeedLe ==
    HasSample =>
        /\ C3_RateTrustedLe => S.bytes_per_s = S.bytes_per_s_log
        /\ ~C3_RateTrustedLe => S.bytes_per_s = NumDiv(NumOfInt(S.delta), NumOfInt(60))

\* the recency rule the program applies: strictly more recent (<) than each
\* index present, and the pause line not more recent than the resume line
C3_RateTrustedLt ==
    /\ S.bytes_per_s_log # NoneNum
    /\ LogRateAboveEps
    /\ ~PauseMoreRecent
    /\ (S.pause_idx = None \/ S.speed_idx < S.pause_idx)
    /\ (S.resume_idx = None \/ S.speed_idx < S.resume_idx)

\* C3 amended: the display speed is the log rate exactly when the rate
\* exists, exceeds 0.10 MB/s, the pause line is not more recent than the
\* resume line, and the rate's index is strictly less than each of the pause
\* and resume indices that is present; otherwise it is the disk rate
\* delta / 60.
C3_DisplaySpeedLt ==
    HasSample =>
        /\ C3_RateTrustedLt => S.bytes_per_s = S.bytes_per_s_log
        /\ ~C3_RateTrustedLt => S.bytes_per_s = NumDiv(NumOfInt(S.delta), NumOfInt(60))

\* a sample whose log rate is more recent than a resume line and is shown
\* instead of a different disk rate
C3_Witness ==
    /\ HasSample
    /\ C3_RateTrustedLt
    /\ S.resume_idx # None
    /\ S.bytes_per_s = S.bytes_per_s_log
    /\ S.bytes_per_s # S.bytes_per_s_disk

\* C4: the reported delta is max(0, size of the directory at the end of the
\* sample's window minus its size at the start of that window), and the disk
\* rate is that delta divided by 60.
C4_DeltaIsWindowGrowth ==
    HasSample =>
        /\ S.delta = Max(0, S.cur - S.win_start)
        /\ S.bytes_per_s_disk = NumDiv(NumOfInt(Max(0, S.cur - S.win_start)), NumOfInt(60))

\* C5: with no log signal at all the sample is paused if and only if the
\* disk delta is below 262144 bytes, and the display speed is delta / 60.
C5_NoSignalUsesDelta ==
    (/\ HasSample
     /\ S.bytes_per_s_log = NoneNum
     /\ S.pause_idx = None
     /\ S.resume_idx = None) =>
        /\ S.paused <=> S.delta < 262144
        /\ S.status = (IF S.delta < 262144 THEN "PAUSED/IDLE" ELSE "DOWNLOADING")
        /\ S.bytes_per_s = NumDiv(NumOfInt(S.delta), NumOfInt(60))

\* both log files missing, a delta of exactly 262144 bytes, reported
\* DOWNLOADING
C5_Witness ==
    /\ HasSample
    /\ S.content_text = << >>
    /\ S.connection_text = << >>
    /\ S.bytes_per_s_log = NoneNum
    /\ S.delta = 262144
    /\ ~S.paused

\* C10: when the rate's index is compared with a pause or resume index (which
\* always come from content_log.txt), the rate's index does not come from
\* connection_log.txt.
C10_IndicesFromSameLog ==
    HasSample => ~((S.cmp_pause \/ S.cmp_resume) /\ S.speed_src = "connection_log")

\* what C7 says of a lower-cased line
C7_Qualifies(low, appid) == Contains(appid, low) \/ AnyMarkerIn(context_markers, low)

\* the line carries a pause-family word: "pause" occurs outside "unpause"
C7_PauseLine(low) ==
    \E i \in 1..Len(low) : OccursAt(<<"p","a","u","s","e">>, low, i) /\ ~OccursAt(<<"u","n">>, low, i - 2)

\* the line carries a resume-family word
C7_ResumeLine(low) == AnyMarkerIn(resume_markers, low)

\* the recency indices of the qualifying lines that carry a keyword
C7_KeywordLines(text, appid) ==
    {idx \in 0..(Len(text) - 1) :
        LET low == Lower(LineAt(text, idx))
        IN  C7_Qualifies(low, appid) /\ (C7_PauseLine(low) \/ C7_ResumeLine(low))}

\* C7: the provisional state is that of the most recent qualifying line
\* carrying a keyword: active for a resume-family line, paused for a
\* pause-family line, undetermined only when there is no such line.
C7_MostRecentKeywordDecides ==
    HasSample =>
        LET text == S.content_text
            ks == C7_KeywordLines(text, S.appid)
            k == CHOOSE i \in ks : \A j \in ks : i <= j
            low == Lower(LineAt(text, k))
        IN  IF ks = {} THEN S.pause_decision = "None"
            ELSE /\ S.pause_decision # "None"
                 /\ (C7_ResumeLine(low) /\ ~C7_PauseLine(low)) => S.pause_decision = "False"
                 /\ (C7_PauseLine(low) /\ ~C7_ResumeLine(low)) => S.pause_decision = "True"

\* the directories pick_active_download may return: (library, position in its
\* listing) of the present directories with an all-digit name
C8_Eligible ==
    {x \in (1..Len(libraries)) \X (1..3) :
        /\ x[2] <= Len(Layout(libraries[x[1]]))
        /\ LET e == Layout(libraries[x[1]])[x[2]]
           IN  /\ e.is_dir
               /\ IsDigitStr(e.name)
               /\ (e.slot # 0 => fs[e.slot].present)}

C8_Mtime(x) ==
    LET e == Layout(libraries[x[1]])[x[2]]
    IN  IF e.slot = 0 THEN MaxMtime + 1 ELSE fs[e.slot].mtime

\* x is enumerated before y
C8_Before(x, y) == x[1] < y[1] \/ (x[1] = y[1] /\ x[2] < y[2])

C6_StepsLeft ==
    IF pc = "start" THEN 3 * LastMinute + 2
    ELSE IF pc = "locate" THEN 3 * LastMinute + 1
    ELSE IF pc = "loop" THEN 3 * (LastMinute + 1 - minute)
    ELSE IF pc \in {"sleep", "sleep_none"} THEN 3 * (LastMinute + 1 - minute) - 1
    ELSE IF pc = "report" THEN 3 * (LastMinute + 1 - minute) - 2
    ELSE 0

\* C6: once the preconditions passed the run ends, after five sleeps and
\* with the five report lines [1/5] .. [5/5] in order; every iteration sleeps
\* once and prints one line, also when nothing is active.  Termination: the
\* program is always at a position whose step needs nothing but the values
\* computed before it, and every step brings the end nearer.
C6_FiveSamplesThenDone ==
    /\ [](pc = "done" => (sleeps = 5 /\ output = <<1, 2, 3, 4, 5>>))
    /\ [](pc = "loop" => (sleeps = minute - 1 /\ output = [i \in 1..(minute - 1) |-> i]))
    /\ [](pc \in {"sleep", "report"} =>
            (minute \in 1..5 /\ active # NoActive /\ prev >= 0 /\ Len(output) = minute - 1))
    /\ [](pc = "sleep_none" =>
            (minute \in 1..5 /\ active = NoActive /\ output = [i \in 1..minute |-> i]))
    /\ [](pc = "report" => (cur >= 0 /\ sleeps = minute))
    /\ [](pc \in {"start", "locate", "loop", "sleep", "sleep_none", "report", "done", "exit"})
    /\ [](pc = "exit" => (exit_code = 1 /\ output = << >> /\ sleeps = 0))
    /\ [](C6_StepsLeft >= 0)
    /\ [][C6_StepsLeft' < C6_StepsLeft]_vars

\* the third minute found no active download, printed its line, and the run
\* goes on
C6_Witness ==
    /\ pc = "sleep_none"
    /\ minute = 3
    /\ output = <<1, 2, 3>>
    /\ sleeps = 2

-----------------------------------------------------------------------------
(* parse_speed_from_line on its own                                        *)

\* largest integer part of the numbers parsed
MaxInt == 12

\* number of blanks between the number and the unit
MaxBlanks == 1

\* The units the three patterns accept, each with what it denotes: the base
\* and exponent of its prefix, whether it counts bits, and the position in
\* this list of the byte-counting unit with the same prefix.
AcceptedUnits ==
    << [text |-> <<"k","b","i","t","/","s">>, base |-> 1000, n |-> 1, bits |-> TRUE, bytes |-> 4],
       [text |-> <<"m","b","i","t","/","s">>, base |-> 1000, n |-> 2, bits |-> TRUE, bytes |-> 5],
       [text |-> <<"g","b","i","t","/","s">>, base |-> 1000, n |-> 3, bits |-> TRUE, bytes |-> 6],
       [text |-> <<"k","b","/","s">>, base |-> 1000, n |-> 1, bits |-> FALSE, bytes |-> 4],
       [text |-> <<"m","b","/","s">>, base |-> 1000, n |-> 2, bits |-> FALSE, bytes |-> 5],
       [text |-> <<"g","b","/","s">>, base |-> 1000, n |-> 3, bits |-> FALSE, bytes |-> 6],
       [text |-> <<"k","i","b","/","s">>, base |-> 1024, n |-> 1, bits |-> FALSE, bytes |-> 7],
       [text |-> <<"m","i","b","/","s">>, base |-> 1024, n |-> 2, bits |-> FALSE, bytes |-> 8],
       [text |-> <<"g","i","b","/","s">>, base |-> 1024, n |-> 3, bits |-> FALSE, bytes |-> 9],
       [text |-> <<"k","b","p","s">>, base |-> 1000, n |-> 1, bits |-> TRUE, bytes |-> 4],
       [text |-> <<"m","b","p","s">>, base |-> 1000, n |-> 2, bits |-> TRUE, bytes |-> 5],
       [text |-> <<"g","b","p","s">>, base |-> 1000, n |-> 3, bits |-> TRUE, bytes |-> 6] >>

\* the decimal digits of n
RECURSIVE IntToDigits(_)
IntToDigits(n) ==
    IF n < 10 THEN << Digits[n + 1] >>
    ELSE IntToDigits(n \div 10) \o << Digits[(n % 10) + 1] >>

RECURSIVE Blanks(_)
Blanks(n) == IF n = 0 THEN << >> ELSE << " " >> \o Blanks(n - 1)

\* the unit as written: lower case, upper case, or the first letter in upper
\* case ("Mbit/s")
Cased(text, case) ==
    IF case = "upper" THEN Upper(text)
    ELSE IF case = "title" THEN << UpperChar(text[1]) >> \o Tail(text)
    ELSE text

\* the line an input denotes: prefix, number, blanks, unit
LineOf(in, unit) ==
    in.prefix
    \o IntToDigits(in.int)
    \o (IF in.frac = None THEN << >> ELSE << in.sep >> \o IntToDigits(in.frac))
    \o Blanks(in.blanks)
    \o Cased(AcceptedUnits[unit].text, in.case)

ParseInputs ==
    { in \in [prefix : { << >>, <<"r","a","t","e"," ">> },
              int : 0..MaxInt,
              frac : {None} \cup 0..9,
              sep : {".", ","},
              blanks : 0..MaxBlanks,
              unit : 1..Len(AcceptedUnits),
              case : {"lower", "upper", "title"}] :
        in.frac = None => in.sep = "." }

MainIdle ==
    /\ platform_system = << >>
    /\ steam_found = FALSE
    /\ exit_code = None
    /\ minute = 0
    /\ fs = [x \in Slots |-> Absent]
    /\ prev_sizes = [a \in {} |-> 0]
    /\ active = NoActive
    /\ prev = None
    /\ win_start = None
    /\ cur = None
    /\ sample = << >>
    /\ output = << >>
    /\ sleeps = 0

InitParse ==
    /\ pc = "parse"
    /\ p_in \in ParseInputs
    /\ p_line = LineOf(p_in, p_in.unit)
    /\ p_result = NoneNum
    /\ MainIdle

\* one call of parse_speed_from_line
ParseLine ==
    /\ pc = "parse"
    /\ p_result' = parse_speed_from_line(p_line)
    /\ pc' = "parsed"
    /\ UNCHANGED <<platform_system, steam_found, exit_code, minute, fs, prev_sizes,
                   active, prev, win_start, cur, sample, output, sleeps, p_in, p_line>>

NextParse == ParseLine

SpecParse == InitParse /\ [][NextParse]_vars

\* the number the input's digits denote
C9_Value(in) ==
    IF in.frac = None THEN NumOfInt(in.int)
    ELSE NumDiv(NumOfInt(10 * in.int + in.frac), NumOfInt(10))

\* value * base^n, one eighth of it for a unit that counts bits
C9_Expected(in) ==
    LET u == AcceptedUnits[in.unit]
        bytes == NumMul(C9_Value(in), NumPow(NumOfInt(u.base), u.n))
    IN  IF u.bits THEN NumDiv(bytes, NumOfInt(8)) ELSE bytes

\* C9: for every value and accepted unit the result is value * 1024^n for
\* ki/mi/gi and value * 1000^n for k/m/g, and the result for a unit counting
\* bits is one eighth of the result for the byte unit with the same value and
\* prefix.
C9_UnitConversion ==
    pc = "parsed" =>
        /\ p_result # NoneNum
        /\ p_result = C9_Expected(p_in)
        /\ AcceptedUnits[p_in.unit].bits =>
              NumMul(p_result, NumOfInt(8)) =
                  parse_speed_from_line(LineOf(p_in, AcceptedUnits[p_in.unit].bytes))

\* "12.5 Mbit/s" has been parsed to 1,562,500 bytes per second
C9_Witness ==
    /\ pc = "parsed"
    /\ p_line = <<"1","2",".","5"," ","M","b","i","t","/","s">>
    /\ p_result = NumOfInt(1562500)

====
